---- MODULE Spec2Model ----
(***************************************************************************)
(* Model of metastego (src/src/main.rs): the oracle builder, the encoder,  *)
(* the decoder, the 4-byte big-endian framing and the two file pipelines.  *)
(*                                                                         *)
(* Integer widths are scaled: a byte (u8) has ByteBits bits instead of 8,  *)
(* and an offset (u32) is OffsetBytes bytes wide, exactly as in the code,  *)
(* so it has OffsetBytes * ByteBits bits.  Every conversion between the    *)
(* two widths is modelled by the arithmetic the code performs.             *)
(***************************************************************************)
EXTENDS Integers, Sequences, FiniteSets, TLC

\* ---------------------------------------------------------------- widths
ByteBits == 2
NumByteValues == 2 ^ ByteBits
Byte == 0 .. (NumByteValues - 1)
OffsetBytes == 4
U32Mod == NumByteValues ^ OffsetBytes
U32 == 0 .. (U32Mod - 1)

\* ---------------------------------------------------------------- bounds
MaxCarrierLen == 5
MaxPayloadLen == 2
MaxExcess == 4
MaxOffsetsLen == 2
MaxOffset == 3
MaxSerLen == 4
MaxImageLen == 2

\* ------------------------------------------------------- result values
NotRun == [tag |-> "NotRun"]
Ok(v) == [tag |-> "Ok", val |-> v]
Err(v) == [tag |-> "Err", val |-> v]
Panic == [tag |-> "Panic"]

\* --------------------------------------------------------- create_oracle
\* `buf.len() as u32`: the length converted to the offset width.
buflen(buf) == Len(buf) % U32Mod

\* The inner loop without its `break`: every later match overwrites the entry.
RECURSIVE ScanCarrierNoBreak(_, _, _, _)
ScanCarrierNoBreak(buf, byte, offset, oracle) ==
    IF offset >= buflen(buf) THEN oracle
    ELSE ScanCarrierNoBreak(buf, byte, offset + 1,
             IF buf[offset + 1] = byte THEN (byte :> offset) @@ oracle ELSE oracle)

\* The inner loop: `for offset in 0..buflen`, insert and break on the first
\* index holding `byte`.  The oracle is a function on the bytes inserted.
RECURSIVE ScanCarrier(_, _, _, _)
ScanCarrier(buf, byte, offset, oracle) ==
    IF offset >= buflen(buf) THEN oracle
    ELSE IF buf[offset + 1] = byte THEN (byte :> offset) @@ oracle
    ELSE ScanCarrier(buf, byte, offset + 1, oracle)

\* The outer loop: `for i in 0..256`, `byte = i as u8`.
RECURSIVE OracleLoop(_, _, _)
OracleLoop(buf, i, oracle) ==
    IF i >= NumByteValues THEN Ok(oracle)
    ELSE LET byte == i % NumByteValues
             scanned == ScanCarrier(buf, byte, 0, oracle)
         IN  IF byte \notin DOMAIN scanned THEN Err(byte)
             ELSE OracleLoop(buf, i + 1, scanned)

create_oracle(buf) == OracleLoop(buf, 0, << >>)

\* ------------------------------------------------------- metasteg_encode
RECURSIVE EncodeLoop(_, _, _, _)
EncodeLoop(payload, oracle, k, encoded) ==
    IF k > Len(payload) THEN Ok(encoded)
    ELSE IF payload[k] \in DOMAIN oracle
         THEN EncodeLoop(payload, oracle, k + 1, Append(encoded, oracle[payload[k]]))
         ELSE Err(payload[k])

\* The encoder inserting each offset at the front instead of pushing it.
RECURSIVE EncodeLoopFront(_, _, _, _)
EncodeLoopFront(payload, oracle, k, encoded) ==
    IF k > Len(payload) THEN Ok(encoded)
    ELSE IF payload[k] \in DOMAIN oracle
         THEN EncodeLoopFront(payload, oracle, k + 1, <<oracle[payload[k]]>> \o encoded)
         ELSE Err(payload[k])

metasteg_encode_front(payload, oracle) == EncodeLoopFront(payload, oracle, 1, << >>)

metasteg_encode(payload, oracle) == EncodeLoop(payload, oracle, 1, << >>)

\* ------------------------------------------------------- metasteg_decode
\* The guard is `offset > buf.len()`; an offset equal to the length passes
\* it and the indexing `buf[offset]` panics (index out of bounds).
RECURSIVE DecodeLoop(_, _, _, _)
DecodeLoop(payload, buf, k, decoded) ==
    IF k > Len(payload) THEN Ok(decoded)
    ELSE IF payload[k] > Len(buf) THEN Err(payload[k])
    ELSE IF payload[k] >= Len(buf) THEN Panic
    ELSE DecodeLoop(payload, buf, k + 1, Append(decoded, buf[payload[k] + 1]))

metasteg_decode(payload, buf) == DecodeLoop(payload, buf, 1, << >>)

\* --------------------------------------------------------------- framing
\* u32::to_le_bytes in place of to_be_bytes.
to_le_bytes(offset) ==
    [j \in 1 .. OffsetBytes |-> (offset \div (NumByteValues ^ (j - 1))) % NumByteValues]

\* u32::to_be_bytes: most significant byte first.
to_be_bytes(offset) ==
    [j \in 1 .. OffsetBytes |->
        (offset \div (NumByteValues ^ (OffsetBytes - j))) % NumByteValues]

\* u32::from_be_bytes.
RECURSIVE FromBytes(_, _, _)
FromBytes(chunk, j, acc) ==
    IF j > Len(chunk) THEN acc
    ELSE FromBytes(chunk, j + 1, acc * NumByteValues + chunk[j])

\* u32::from_le_bytes in place of from_be_bytes.
from_le_bytes(chunk) == FromBytes([j \in 1 .. Len(chunk) |-> chunk[Len(chunk) + 1 - j]], 1, 0)

from_be_bytes(chunk) == FromBytes(chunk, 1, 0)

\* The write loop of encode_file when no write fails: the bytes of every
\* offset in order.
RECURSIVE serialize(_)
serialize(offsets) ==
    IF offsets = << >> THEN << >>
    ELSE to_be_bytes(Head(offsets)) \o serialize(Tail(offsets))

\* The chunking loop of decode_file: `i` steps by 4 from 0.
RECURSIVE ChunkLoop(_, _, _)
ChunkLoop(bytes, i, payload) ==
    IF i >= Len(bytes) THEN payload
    ELSE ChunkLoop(bytes, i + OffsetBytes,
             Append(payload, from_be_bytes(SubSeq(bytes, i + 1, i + OffsetBytes))))

\* Chunking without the length check: whole chunks only, the tail is dropped.
deserialize_exact(bytes) ==
    Ok(ChunkLoop(SubSeq(bytes, 1, Len(bytes) - (Len(bytes) % OffsetBytes)), 0, << >>))

\* The length check followed by the chunking loop.
deserialize(bytes) ==
    IF Len(bytes) % OffsetBytes # 0 THEN Err(Len(bytes))
    ELSE Ok(ChunkLoop(bytes, 0, << >>))

\* ---------------------------------------------------------------- files
NoFile == [exists |-> FALSE, data |-> << >>]
File(d) == [exists |-> TRUE, data |-> d]

\* ------------------------------------------------------------ input sets
SeqsUpTo(S, n) == UNION {[1 .. m -> S] : m \in 0 .. n}

\* head followed by copies of fill up to length n.
Pad(head, fill, n) == [k \in 1 .. n |-> IF k <= Len(head) THEN head[k] ELSE fill]

\* Carriers that hold every byte value exactly once.
Perms == {c \in [1 .. NumByteValues -> Byte] : \A v \in Byte : \E k \in DOMAIN c : c[k] = v}

Carriers == SeqsUpTo(Byte, MaxCarrierLen)

\* Carriers whose length does not fit in the offset width.
LongCarriers == {Pad(head, fill, U32Mod + k) : head \in Perms, fill \in Byte, k \in 0 .. MaxExcess}

SmallCarriers == SeqsUpTo(Byte, MaxImageLen)
Payloads == SeqsUpTo(Byte, MaxPayloadLen)

\* Offsets around the carrier lengths, and offsets using every byte position.
OffsetValues == (0 .. MaxOffset) \cup {from_be_bytes(<<0, 1, 2, 3>>), from_be_bytes(<<3, 2, 1, 0>>), U32Mod - 1}
OffsetSeqs == SeqsUpTo(OffsetValues, MaxOffsetsLen) \cup SeqsUpTo(U32, 1)

\* Oracles with some bytes missing.
PartialOracles == UNION {[D -> 0 .. 1] : D \in SUBSET Byte}

SerInputs == SeqsUpTo(Byte, MaxSerLen)

\* ----------------------------------------------------------------- state
VARIABLES entry, image, payload, oracle, encoded_payload, serialized_payload,
          offsets, decoded_payload, pc, disk, old_output, result

vars == <<entry, image, payload, oracle, encoded_payload, serialized_payload,
          offsets, decoded_payload, pc, disk, old_output, result>>

locals == <<image, payload, oracle, encoded_payload, serialized_payload,
            offsets, decoded_payload>>
io == <<pc, disk, old_output, result>>

Running == [tag |-> "Running"]
Failed(stage, v) == [tag |-> "Err", stage |-> stage, val |-> v]
Panicked(stage) == [tag |-> "Panic", stage |-> stage]
Done == [tag |-> "Ok"]

\* ------------------------------------------- the functions, one call each
\* entry names the value handed in: a carrier and a payload, an oracle and a
\* payload, an offset sequence, or serialized bytes.
InitFn ==
    /\ pc = "fn"
    /\ disk = [input |-> NoFile, image |-> NoFile, output |-> NoFile]
    /\ old_output = NoFile
    /\ result = Running
    /\ decoded_payload = NotRun
    /\ \/ /\ entry = "image"
          /\ image \in Carriers \cup LongCarriers
          /\ payload \in Payloads
          /\ oracle = NotRun
          /\ encoded_payload = NotRun
          /\ serialized_payload = NotRun
          /\ offsets = NotRun
       \/ /\ entry = "oracle"
          /\ image \in SmallCarriers
          /\ payload \in Payloads
          /\ oracle \in {Ok(o) : o \in PartialOracles}
          /\ encoded_payload = NotRun
          /\ serialized_payload = NotRun
          /\ offsets = NotRun
       \/ /\ entry = "encoded"
          /\ image \in SmallCarriers
          /\ payload = << >>
          /\ oracle = NotRun
          /\ encoded_payload \in {Ok(o) : o \in OffsetSeqs}
          /\ serialized_payload = NotRun
          /\ offsets = NotRun
       \/ /\ entry = "serialized"
          /\ image \in SmallCarriers
          /\ payload = << >>
          /\ oracle = NotRun
          /\ encoded_payload = NotRun
          /\ serialized_payload \in {Ok(b) : b \in SerInputs}
          /\ offsets = NotRun

CreateOracle ==
    /\ pc = "fn"
    /\ entry = "image"
    /\ oracle = NotRun
    /\ oracle' = create_oracle(image)
    /\ UNCHANGED <<entry, image, payload, encoded_payload, serialized_payload,
                   offsets, decoded_payload, io>>

Encode ==
    /\ pc = "fn"
    /\ oracle.tag = "Ok"
    /\ encoded_payload = NotRun
    /\ encoded_payload' = metasteg_encode(payload, oracle.val)
    /\ UNCHANGED <<entry, image, payload, oracle, serialized_payload,
                   offsets, decoded_payload, io>>

Serialize ==
    /\ pc = "fn"
    /\ encoded_payload.tag = "Ok"
    /\ serialized_payload = NotRun
    /\ serialized_payload' = Ok(serialize(encoded_payload.val))
    /\ UNCHANGED <<entry, image, payload, oracle, encoded_payload,
                   offsets, decoded_payload, io>>

Deserialize ==
    /\ pc = "fn"
    /\ serialized_payload.tag = "Ok"
    /\ offsets = NotRun
    /\ offsets' = deserialize(serialized_payload.val)
    /\ UNCHANGED <<entry, image, payload, oracle, encoded_payload,
                   serialized_payload, decoded_payload, io>>

Decode ==
    /\ pc = "fn"
    /\ offsets.tag = "Ok"
    /\ decoded_payload = NotRun
    /\ decoded_payload' = metasteg_decode(offsets.val, image)
    /\ UNCHANGED <<entry, image, payload, oracle, encoded_payload,
                   serialized_payload, offsets, io>>

Next == CreateOracle \/ Encode \/ Serialize \/ Deserialize \/ Decode

Spec == InitFn /\ [][Next]_vars

\* ------------------------------------------------------ the file pipelines
\* A file that is missing or unreadable is NoFile.  The three paths name
\* three different files.
FileInputs == {NoFile} \cup {File(d) : d \in Payloads}
FileImages == {NoFile} \cup {File(d) : d \in SmallCarriers \cup Perms}
FileSerialized == {NoFile} \cup {File(d) : d \in SerInputs}
OldOutputs == {NoFile, File(<<1, 2>>)}

InitFile ==
    /\ pc = "main"
    /\ entry \in {"encode", "decode", "usage"}
    /\ \E inp \in (IF entry = "decode" THEN FileSerialized ELSE FileInputs),
          img \in FileImages, out \in OldOutputs :
          /\ disk = [input |-> inp, image |-> img, output |-> out]
          /\ old_output = out
    /\ image = << >>
    /\ payload = << >>
    /\ oracle = NotRun
    /\ encoded_payload = NotRun
    /\ serialized_payload = NotRun
    /\ offsets = NotRun
    /\ decoded_payload = NotRun
    /\ result = Running

\* main: dispatch on args[1]; anything else prints the usage text.
Main ==
    /\ pc = "main"
    /\ pc' = CASE entry = "encode" -> "enc_read_payload"
               [] entry = "decode" -> "dec_read_payload"
               [] OTHER -> "done"
    /\ result' = IF entry \in {"encode", "decode"} THEN Running ELSE Done
    /\ UNCHANGED <<entry, locals, disk, old_output>>

\* encode_file: fs::read(input_path).
EncReadPayload ==
    /\ pc = "enc_read_payload"
    /\ IF disk.input.exists
       THEN /\ payload' = disk.input.data
            /\ pc' = "enc_read_image"
            /\ UNCHANGED result
       ELSE /\ result' = Failed("read_payload", 0)
            /\ pc' = "done"
            /\ UNCHANGED payload
    /\ UNCHANGED <<entry, image, oracle, encoded_payload, serialized_payload,
                   offsets, decoded_payload, disk, old_output>>

\* encode_file: fs::read(image_path).
EncReadImage ==
    /\ pc = "enc_read_image"
    /\ IF disk.image.exists
       THEN /\ image' = disk.image.data
            /\ pc' = "enc_oracle"
            /\ UNCHANGED result
       ELSE /\ result' = Failed("read_image", 0)
            /\ pc' = "done"
            /\ UNCHANGED image
    /\ UNCHANGED <<entry, payload, oracle, encoded_payload, serialized_payload,
                   offsets, decoded_payload, disk, old_output>>

\* encode_file opening the output file before the oracle is built.
EncCreateOracleAfterOpen ==
    /\ pc = "enc_oracle"
    /\ oracle' = create_oracle(image)
    /\ disk' = [disk EXCEPT !.output = File(<< >>)]
    /\ IF oracle'.tag = "Ok"
       THEN pc' = "enc_encode" /\ UNCHANGED result
       ELSE pc' = "done" /\ result' = Failed("oracle", oracle'.val)
    /\ UNCHANGED <<entry, image, payload, encoded_payload, serialized_payload,
                   offsets, decoded_payload, old_output>>

\* encode_file: create_oracle(&image).
EncCreateOracle ==
    /\ pc = "enc_oracle"
    /\ oracle' = create_oracle(image)
    /\ IF oracle'.tag = "Ok"
       THEN pc' = "enc_encode" /\ UNCHANGED result
       ELSE pc' = "done" /\ result' = Failed("oracle", oracle'.val)
    /\ UNCHANGED <<entry, image, payload, encoded_payload, serialized_payload,
                   offsets, decoded_payload, disk, old_output>>

\* encode_file: metasteg_encode(&payload, &oracle).
EncEncode ==
    /\ pc = "enc_encode"
    /\ encoded_payload' = metasteg_encode(payload, oracle.val)
    /\ IF encoded_payload'.tag = "Ok"
       THEN pc' = "enc_create" /\ UNCHANGED result
       ELSE pc' = "done" /\ result' = Failed("encode", encoded_payload'.val)
    /\ UNCHANGED <<entry, image, payload, oracle, serialized_payload,
                   offsets, decoded_payload, disk, old_output>>

\* encode_file: fs::File::create(output_path) truncates the file or fails.
\* serialized_payload holds the bytes written so far.
EncCreateOutput ==
    /\ pc = "enc_create"
    /\ \/ /\ disk' = [disk EXCEPT !.output = File(<< >>)]
          /\ serialized_payload' = Ok(<< >>)
          /\ pc' = "enc_write"
          /\ UNCHANGED result
       \/ /\ result' = Failed("create", 0)
          /\ pc' = "done"
          /\ UNCHANGED <<disk, serialized_payload>>
    /\ UNCHANGED <<entry, image, payload, oracle, encoded_payload,
                   offsets, decoded_payload, old_output>>

\* encode_file: one iteration of the write loop.  write_all either writes the
\* whole chunk or fails after writing n of its bytes.
EncWriteOffset ==
    /\ pc = "enc_write"
    /\ Len(serialized_payload.val) < OffsetBytes * Len(encoded_payload.val)
    /\ LET k == Len(serialized_payload.val) \div OffsetBytes + 1
           offset_bytes == to_be_bytes(encoded_payload.val[k])
       IN  \/ /\ disk' = [disk EXCEPT !.output = File(disk.output.data \o offset_bytes)]
              /\ serialized_payload' = Ok(serialized_payload.val \o offset_bytes)
              /\ UNCHANGED <<pc, result>>
           \/ \E n \in 0 .. (OffsetBytes - 1) :
                 /\ disk' = [disk EXCEPT !.output =
                                 File(disk.output.data \o SubSeq(offset_bytes, 1, n))]
                 /\ result' = Failed("write", 0)
                 /\ pc' = "done"
                 /\ UNCHANGED serialized_payload
    /\ UNCHANGED <<entry, image, payload, oracle, encoded_payload,
                   offsets, decoded_payload, old_output>>

\* encode_file: the loop is over, Ok(()).
EncFinish ==
    /\ pc = "enc_write"
    /\ Len(serialized_payload.val) >= OffsetBytes * Len(encoded_payload.val)
    /\ result' = Done
    /\ pc' = "done"
    /\ UNCHANGED <<entry, locals, disk, old_output>>

\* decode_file: fs::read(input_path).
DecReadPayload ==
    /\ pc = "dec_read_payload"
    /\ IF disk.input.exists
       THEN /\ serialized_payload' = Ok(disk.input.data)
            /\ pc' = "dec_read_image"
            /\ UNCHANGED result
       ELSE /\ result' = Failed("read_payload", 0)
            /\ pc' = "done"
            /\ UNCHANGED serialized_payload
    /\ UNCHANGED <<entry, image, payload, oracle, encoded_payload,
                   offsets, decoded_payload, disk, old_output>>

\* decode_file: fs::read(image_path).
DecReadImage ==
    /\ pc = "dec_read_image"
    /\ IF disk.image.exists
       THEN /\ image' = disk.image.data
            /\ pc' = "dec_deserialize"
            /\ UNCHANGED result
       ELSE /\ result' = Failed("read_image", 0)
            /\ pc' = "done"
            /\ UNCHANGED image
    /\ UNCHANGED <<entry, payload, oracle, encoded_payload, serialized_payload,
                   offsets, decoded_payload, disk, old_output>>

\* decode_file: the length check and the chunking loop.
DecDeserialize ==
    /\ pc = "dec_deserialize"
    /\ offsets' = deserialize(serialized_payload.val)
    /\ IF offsets'.tag = "Ok"
       THEN pc' = "dec_decode" /\ UNCHANGED result
       ELSE pc' = "done" /\ result' = Failed("length", offsets'.val)
    /\ UNCHANGED <<entry, image, payload, oracle, encoded_payload,
                   serialized_payload, decoded_payload, disk, old_output>>

\* decode_file: metasteg_decode(&payload, &image); a panic ends the process.
DecDecode ==
    /\ pc = "dec_decode"
    /\ decoded_payload' = metasteg_decode(offsets.val, image)
    /\ CASE decoded_payload'.tag = "Ok" -> pc' = "dec_write" /\ UNCHANGED result
         [] decoded_payload'.tag = "Err" ->
                pc' = "done" /\ result' = Failed("decode", decoded_payload'.val)
         [] OTHER -> pc' = "done" /\ result' = Panicked("decode")
    /\ UNCHANGED <<entry, image, payload, oracle, encoded_payload,
                   serialized_payload, offsets, disk, old_output>>

\* decode_file: fs::write(output_path, decoded_payload) creates (truncates)
\* the file and writes it all; it can fail at the creation or after n bytes.
DecWrite ==
    /\ pc = "dec_write"
    /\ pc' = "done"
    /\ \/ /\ disk' = [disk EXCEPT !.output = File(decoded_payload.val)]
          /\ result' = Done
       \/ /\ result' = Failed("write", 0)
          /\ UNCHANGED disk
       \/ \E n \in 0 .. (Len(decoded_payload.val) - 1) :
             /\ disk' = [disk EXCEPT !.output = File(SubSeq(decoded_payload.val, 1, n))]
             /\ result' = Failed("write", 0)
    /\ UNCHANGED <<entry, locals, old_output>>

NextFile ==
    \/ Main
    \/ EncReadPayload \/ EncReadImage \/ EncCreateOracle \/ EncEncode
    \/ EncCreateOutput \/ EncWriteOffset \/ EncFinish
    \/ DecReadPayload \/ DecReadImage \/ DecDeserialize \/ DecDecode \/ DecWrite

FileSpec == InitFile /\ [][NextFile]_vars

\* ================================================================ claims
HasAllValues(C) == \A v \in Byte : \E k \in DOMAIN C : C[k] = v
MissingValues(C) == {v \in Byte : \A k \in DOMAIN C : C[k] # v}
Least(S) == CHOOSE x \in S : \A y \in S : x <= y
AllInRange(E, C) == \A k \in DOMAIN E : E[k] < Len(C)
FirstOutOfRange(E, C) ==
    E[Least({k \in DOMAIN E : E[k] >= Len(C)})]
\* The value of the OffsetBytes bytes of `bytes` that form chunk k, most
\* significant first.
PlaceValue(bytes, k) ==
    LET b(j) == bytes[OffsetBytes * (k - 1) + j]
    IN  ((b(1) * NumByteValues + b(2)) * NumByteValues + b(3)) * NumByteValues + b(4)

\* C1: metasteg_decode(E, C) succeeds iff every offset of E is strictly less
\* than len(C); otherwise it returns the error carrying the first offset of E
\* that is >= len(C), without panicking.
C1_DecodeRejectsOutOfRange ==
    decoded_payload # NotRun =>
        IF AllInRange(offsets.val, image)
        THEN decoded_payload.tag = "Ok"
        ELSE /\ decoded_payload.tag = "Err"
             /\ decoded_payload.val = FirstOutOfRange(offsets.val, image)

\* C2: create_oracle(carrier) succeeds iff every byte value occurs in the
\* carrier; otherwise it fails with exactly the smallest missing value.
C2_OracleCompleteness ==
    (entry = "image" /\ oracle # NotRun) =>
        IF HasAllValues(image)
        THEN oracle.tag = "Ok" /\ DOMAIN oracle.val = Byte
        ELSE oracle.tag = "Err" /\ oracle.val = Least(MissingValues(image))

\* C3: whenever create_oracle succeeds, Oracle[v] is the smallest index i with
\* carrier[i] = v, for every byte value v.
C3_FirstOccurrence ==
    (entry = "image" /\ oracle.tag = "Ok") =>
        \A v \in Byte :
            /\ v \in DOMAIN oracle.val
            /\ oracle.val[v] < Len(image)
            /\ image[oracle.val[v] + 1] = v
            /\ \A i \in 0 .. (oracle.val[v] - 1) : image[i + 1] # v

\* create_oracle has succeeded on a carrier that holds some value twice.
C3_Witness ==
    /\ entry = "image"
    /\ oracle.tag = "Ok"
    /\ Len(image) <= MaxCarrierLen
    /\ \E v \in Byte : \E k \in DOMAIN image : image[k] = v /\ k > oracle.val[v] + 1

\* C4: for any carrier holding every byte value and any payload P, building
\* the oracle, encoding P and decoding the result all succeed and give back P.
C4_RoundTrip ==
    (entry = "image" /\ HasAllValues(image)) =>
        /\ oracle # NotRun => oracle.tag = "Ok"
        /\ encoded_payload # NotRun => encoded_payload.tag = "Ok"
        /\ decoded_payload # NotRun =>
               decoded_payload.tag = "Ok" /\ decoded_payload.val = payload

\* C5: deserializing the bytes produced by serializing an offset sequence O
\* yields exactly O, same length and order.
C5_FramingRoundTrip ==
    (entry # "serialized" /\ offsets # NotRun) =>
        offsets.tag = "Ok" /\ offsets.val = encoded_payload.val

\* Two different offsets, one with every byte position in use, went through
\* serialization and deserialization.
C5_Witness ==
    /\ entry = "encoded"
    /\ offsets.tag = "Ok"
    /\ encoded_payload.val = <<from_be_bytes(<<3, 2, 1, 0>>), 1>>

\* C6: the serialized form of O has exactly 4 * len(O) bytes and the bytes at
\* positions 4k .. 4k+3 are O[k], most significant byte first.
C6_BigEndianFraming ==
    (entry # "serialized" /\ serialized_payload # NotRun) =>
        LET O == encoded_payload.val
            B == serialized_payload.val
        IN  /\ Len(B) = OffsetBytes * Len(O)
            /\ Len(B) % OffsetBytes = 0
            /\ \A j \in DOMAIN B : B[j] \in Byte
            /\ \A k \in DOMAIN O : PlaceValue(B, k) = O[k]

\* The offsets [1*64+2*16+3, 1] have been serialized to 00 01 02 03 00 00 00 01.
C6_Witness ==
    /\ entry = "encoded"
    /\ serialized_payload = Ok(<<0, 1, 2, 3, 0, 0, 0, 1>>)
    /\ encoded_payload.val = <<27, 1>>

\* C9: a successful metasteg_encode(P, oracle) has len(P) elements, element k
\* being oracle[P[k]]; a successful metasteg_decode(E, carrier) has len(E)
\* elements, element k being carrier[E[k]].
C9_LengthAndOrder ==
    /\ (entry \in {"image", "oracle"} /\ encoded_payload.tag = "Ok") =>
           /\ Len(encoded_payload.val) = Len(payload)
           /\ \A k \in DOMAIN payload :
                  encoded_payload.val[k] = oracle.val[payload[k]]
    /\ decoded_payload.tag = "Ok" =>
           /\ Len(decoded_payload.val) = Len(offsets.val)
           /\ \A k \in DOMAIN offsets.val :
                  decoded_payload.val[k] = image[offsets.val[k] + 1]

\* An oracle with missing bytes encoded a payload of two different bytes to two
\* different offsets, and the decoder decoded them.
C9_Witness ==
    /\ entry = "oracle"
    /\ DOMAIN oracle.val # Byte
    /\ encoded_payload.tag = "Ok"
    /\ Len(payload) = 2
    /\ encoded_payload.val[1] # encoded_payload.val[2]
    /\ decoded_payload.tag = "Ok"
    /\ Len(decoded_payload.val) = 2

\* C10: the scan bound of create_oracle equals the carrier length, so that
\* create_oracle never reports Err(v) for a value v that occurs in the carrier
\* at an index representable in the offset width.
C10_ScanBoundIsLength ==
    (entry = "image" /\ oracle # NotRun) =>
        /\ buflen(image) = Len(image)
        /\ oracle.tag = "Err" =>
               \A i \in DOMAIN image : i - 1 < U32Mod => image[i] # oracle.val

\* ------------------------------------------------ claims on the pipelines
\* C7: in decode_file an input of length n with n mod 4 # 0 fails with the
\* invalid-length error carrying n, no offset is decoded and the output file
\* is not written; an input whose length is a multiple of 4 is split into n/4
\* consecutive chunks and deserialization does not fail.
C7_MalformedFraming ==
    (entry = "decode" /\ serialized_payload.tag = "Ok") =>
        LET B == serialized_payload.val
        IN  IF Len(B) % OffsetBytes # 0
            THEN /\ decoded_payload = NotRun
                 /\ disk.output = old_output
                 /\ pc \notin {"dec_decode", "dec_write"}
                 /\ offsets # NotRun =>
                        /\ offsets.tag = "Err" /\ offsets.val = Len(B)
                        /\ result = Failed("length", Len(B))
            ELSE offsets # NotRun =>
                     /\ offsets.tag = "Ok"
                     /\ Len(offsets.val) = Len(B) \div OffsetBytes
                     /\ \A k \in DOMAIN offsets.val : offsets.val[k] = PlaceValue(B, k)

\* decode_file has rejected an input of three bytes while an output file with
\* older contents exists.
C7_Witness ==
    /\ entry = "decode"
    /\ serialized_payload.tag = "Ok"
    /\ Len(serialized_payload.val) = 3
    /\ result = Failed("length", 3)
    /\ old_output.exists

\* The complete result of the run: the serialized offsets, or the decoded bytes.
CompleteOutput ==
    IF entry = "encode" THEN File(serialize(encoded_payload.val))
    ELSE File(decoded_payload.val)

HasCompleteOutput ==
    IF entry = "encode" THEN encoded_payload.tag = "Ok" /\ disk.output = CompleteOutput
    ELSE decoded_payload.tag = "Ok" /\ disk.output = CompleteOutput

EarlyStages == {"read_payload", "read_image", "oracle", "encode", "length", "decode"}

====
